---- MODULE Spec2Model ----
(***************************************************************************)
(* ReadNIRC2Fits (Python/readfits.py): open a FITS file, look SAMPMODE up  *)
(* in the primary header and, when the lookup succeeds, copy every         *)
(* extension's pixel data, cast to int32, into a zero-filled 4-D array.    *)
(*                                                                         *)
(* One action per statement of the function; `pc` is the position of the   *)
(* interpreter inside the call.  The FITS library (astropy) and numpy are  *)
(* modelled by what the function observes of them: HDU-list indexing,      *)
(* header key lookup, the int32 cast and the broadcasting slice store.     *)
(***************************************************************************)
EXTENDS Integers, Sequences, FiniteSets, TLC

VARIABLES
    file,         \* the FITS file on disk
    file0,        \* the file as it was before the first call (history)
    pc,           \* position inside ReadNIRC2Fits
    call,         \* 1 during the first call on the file, 2 during the second
    openHandles,  \* handles opened by fits.open and not yet released
    n_ext,        \* local n_ext
    frames,       \* local frames
    e,            \* loop variable e
    stdout,       \* lines printed by the current call
    ops,          \* library operations performed by the current call, in order
    outcome,      \* how the current call ended
    first         \* outcome and output of the first call, once it has ended

vars == <<file, file0, pc, call, openHandles, n_ext, frames, e, stdout, ops,
          outcome, first>>

(***************************************************************************)
(* Bounds of the explored inputs.                                          *)
(***************************************************************************)
MaxExt == 2   \* extensions per file: 0..MaxExt
MaxDim == 2   \* axis lengths: 1..MaxDim

(***************************************************************************)
(* Widths of the numeric types the function names.                         *)
(***************************************************************************)
Int32Bits == 32         \* np.int32
Float64Mantissa == 53   \* np.zeros default dtype float64: 53-bit significand

RECURSIVE Pow2(_)
Pow2(n) == IF n = 0 THEN 1 ELSE 2 * Pow2(n - 1)

\* Pixels are written in two 16-bit limbs so that values outside the int32
\* range (int64 or float64 pixel data) can be fed to the cast.
Limb == Pow2(Int32Bits \div 2)

(***************************************************************************)
(* Pixel values.  [hi, lo, half] stands for hi*Limb + lo + half/2 with     *)
(* 0 <= lo < Limb and half \in {0,1}: an integer (half = 0) of up to 64    *)
(* bits, or a float with fractional part .5 (half = 1).                    *)
(***************************************************************************)
Px(hi, lo, half) == [hi |-> hi, lo |-> lo, half |-> half]

\* Pixels of an extension stored as 64-bit integers (BITPIX = 64).
Int64Pool ==
    << Px(0, 7, 0),                          \* 7
       Px(Limb \div 2, 0, 0),                \* 2^31
       Px(-1, Limb - 1, 0),                  \* -1
       Px(Limb \div 2 - 1, Limb - 1, 0),     \* 2^31 - 1
       Px(-(Limb \div 2) - 1, Limb - 1, 0),  \* -2^31 - 1
       Px(1, 4464, 0),                       \* 70000
       Px(-(Limb \div 2), 0, 0) >>           \* -2^31

\* Pixels of an extension stored as 64-bit floats (BITPIX = -64).  All lie
\* within the int32 range: converting a float outside it is undefined.
Float64Pool ==
    << Px(0, 2, 1),                          \* 2.5
       Px(-1, Limb - 3, 1),                  \* -2.5
       Px(0, 7, 0),                          \* 7.0
       Px(-1, Limb - 1, 1),                  \* -0.5
       Px(Limb \div 2 - 1, Limb - 1, 0) >>   \* 2147483647.0

PixelPool(dtype) == IF dtype = "int64" THEN Int64Pool ELSE Float64Pool

\* The pixel is an integer within the 32-bit signed range.
InInt32Range(p) ==
    /\ p.half = 0
    /\ p.hi >= -(Limb \div 2)
    /\ p.hi <= Limb \div 2 - 1

\* The value of such a pixel.
IntValue(p) == p.hi * Limb + p.lo

\* Variant: the conversion done with dtype=np.int16 (the low 16 bits, signed).
Int32Cast_Int16(p) ==
    LET up   == p.half = 1 /\ p.hi < 0
        lo1  == IF up THEN p.lo + 1 ELSE p.lo
        lo2  == lo1 % Limb
    IN  IF lo2 >= Limb \div 2 THEN lo2 - Limb ELSE lo2

\* numpy's conversion of one element to int32: truncation toward zero of a
\* fractional value, then the low 32 bits read as a signed integer.
Int32Cast(p) ==
    LET up   == p.half = 1 /\ p.hi < 0
        lo1  == IF up THEN p.lo + 1 ELSE p.lo
        hi1  == IF lo1 = Limb THEN p.hi + 1 ELSE p.hi
        lo2  == lo1 % Limb
        hiw  == ((hi1 + Limb \div 2) % Limb) - Limb \div 2
    IN  hiw * Limb + lo2

RECURSIVE BitLen(_)
BitLen(n) == IF n = 0 THEN 0 ELSE 1 + BitLen(n \div 2)

\* Storing an int32 into a float64 element: exact while the magnitude fits
\* the significand, rounded to nearest (ties to even) beyond it.
Float64Store(v) ==
    LET m     == IF v < 0 THEN -(v + 1) ELSE v
        shift == BitLen(m) - Float64Mantissa
        q     == Pow2(shift)
        r     == v % q
        down  == v - r
    IN  IF shift <= 0 THEN v
        ELSE IF 2 * r < q THEN down
        ELSE IF 2 * r > q THEN down + q
        ELSE IF (down \div q) % 2 = 0 THEN down ELSE down + q

(***************************************************************************)
(* Arrays: a shape (outermost axis first, as numpy reports it) and the     *)
(* elements in row-major order.                                            *)
(***************************************************************************)
RECURSIVE Prod(_)
Prod(shape) == IF shape = <<>> THEN 1 ELSE Head(shape) * Prod(Tail(shape))

\* Row-major position (0-based) of a 0-based multi-index, and its inverse.
RECURSIVE Ravel(_, _)
Ravel(idx, shape) ==
    IF shape = <<>> THEN 0
    ELSE Head(idx) * Prod(Tail(shape)) + Ravel(Tail(idx), Tail(shape))

RECURSIVE Unravel(_, _)
Unravel(k, shape) ==
    IF shape = <<>> THEN <<>>
    ELSE <<k \div Prod(Tail(shape))>> \o Unravel(k % Prod(Tail(shape)), Tail(shape))

\* The data of an HDU that has none (NAXIS = 0): Python's None.
None == [isNone |-> TRUE, dtype |-> "", shape |-> <<>>, flat |-> <<>>]

Array(dtype, shape, flat) ==
    [isNone |-> FALSE, dtype |-> dtype, shape |-> shape, flat |-> flat]

(***************************************************************************)
(* Headers: cards (keyword -> value) and the keywords whose card image     *)
(* cannot be parsed into a value.                                          *)
(***************************************************************************)
AxisKey == <<"NAXIS1", "NAXIS2", "NAXIS3", "NAXIS4">>

Header(cards, unparsable) == [cards |-> cards, unparsable |-> unparsable]

\* header[key]: the value, KeyError when the keyword is absent, VerifyError
\* when the card is there and its value cannot be parsed.
Lookup(header, key) ==
    IF key \notin DOMAIN header.cards THEN [exc |-> "KeyError", val |-> 0]
    ELSE IF key \in header.unparsable THEN [exc |-> "VerifyError", val |-> 0]
    ELSE [exc |-> "", val |-> header.cards[key]]

\* The header of an image HDU whose data has the given shape: NAXIS and
\* NAXIS1..NAXISr, NAXIS1 being the innermost (last) axis.
ImageHeader(shape) ==
    LET r    == Len(shape)
        keys == {AxisKey[i] : i \in 1..r}
    IN  Header([k \in keys \cup {"NAXIS"} |->
                   IF k = "NAXIS" THEN r
                   ELSE shape[r + 1 - (CHOOSE i \in 1..r : AxisKey[i] = k)]],
               {})

\* Pixel data of the given shape: int64 for an even seed, float64 for an
\* odd one, the pool cycled from position seed.
PixelData(shape, seed) ==
    LET dtype == IF seed % 2 = 0 THEN "int64" ELSE "float64"
        pool  == PixelPool(dtype)
    IN  IF shape = <<>> THEN None
        ELSE Array(dtype, shape,
                   [k \in 1..Prod(shape) |-> pool[((seed + k) % Len(pool)) + 1]])

ImageHDU(shape, seed) ==
    [header |-> ImageHeader(shape), data |-> PixelData(shape, seed)]

(***************************************************************************)
(* The files the calls are run on.                                         *)
(***************************************************************************)
Dims == 1..MaxDim

\* Shapes an extension of a file with nominal cube (z, y, x) may have.
ExtShapes(z, y, x) ==
    { <<z, y, x>>,          \* the nominal cube
      <<>>,                 \* no data
      <<y, x>>,             \* a single plane
      <<1, y, x>>,          \* a cube of one plane
      <<z, z, y, x>>,       \* one axis more
      <<z, y, x + 1>> }     \* a longer row

\* SAMPMODE in the primary header: absent, a card with a value, or a card
\* whose value cannot be parsed.
PrimaryHeaders ==
    { Header(("NAXIS" :> 0), {}),
      Header(("NAXIS" :> 0) @@ ("SAMPMODE" :> 2), {}),
      Header(("NAXIS" :> 0) @@ ("SAMPMODE" :> 3), {}),
      Header(("NAXIS" :> 0) @@ ("SAMPMODE" :> 0), {"SAMPMODE"}) }

Seeds == 0..1

ExtLists ==
    UNION { UNION { { [i \in 1..n |-> ImageHDU(sh[i], s + i)] :
                        sh \in [1..n -> ExtShapes(c[1], c[2], c[3])], s \in Seeds } :
                    c \in Dims \X Dims \X Dims } :
            n \in 0..MaxExt }

Missing == [exists |-> FALSE, primary |-> Header(("NAXIS" :> 0), {}), exts |-> <<>>]

Files ==
    { [exists |-> TRUE, primary |-> h, exts |-> x] :
          h \in PrimaryHeaders, x \in ExtLists } \cup {Missing}

(***************************************************************************)
(* numpy operations the function uses.                                     *)
(***************************************************************************)
\* np.array(data, dtype=np.int32) on an ndarray: a new array of the same
\* shape, every element converted.
AsInt32(data) ==
    Array("int32", data.shape, [k \in DOMAIN data.flat |-> Int32Cast(data.flat[k])])

\* Assignment drops unit axes from the left of a source that has more axes
\* than the destination.
RECURSIVE StripLeadingOnes(_, _)
StripLeadingOnes(shape, rank) ==
    IF Len(shape) > rank /\ Head(shape) = 1
    THEN StripLeadingOnes(Tail(shape), rank)
    ELSE shape

\* The source shape broadcasts to the destination shape: aligned at the last
\* axis, every source axis has the destination's length or length 1.
CanBroadcast(src, dst) ==
    LET s == StripLeadingOnes(src, Len(dst))
    IN  /\ Len(s) <= Len(dst)
        /\ \A i \in 1..Len(s) : s[i] = dst[Len(dst) - Len(s) + i] \/ s[i] = 1

\* The elements of the source as the destination shape sees them: an axis
\* of length 1, or one the source lacks, repeats.
BroadcastTo(arr, dst) ==
    LET s   == StripLeadingOnes(arr.shape, Len(dst))
        off == Len(dst) - Len(s)
    IN  [k \in 1..Prod(dst) |->
            LET idx  == Unravel(k - 1, dst)
                sidx == [i \in 1..Len(s) |-> IF s[i] = 1 THEN 0 ELSE idx[off + i]]
            IN  arr.flat[Ravel(sidx, s) + 1]]

\* np.zeros(shape): float64 zeros; kept as one row-major list per leading index.
Zeros(shape) ==
    [kind |-> "array", dtype |-> "float64", shape |-> shape, value |-> 0,
     data |-> [i \in 1..Head(shape) |-> [k \in 1..Prod(Tail(shape)) |-> 0]]]

\* The values a name can be bound to.
Unbound == [kind |-> "unbound", dtype |-> "", shape |-> <<>>, value |-> 0, data |-> <<>>]
IntObject(v) == [kind |-> "int", dtype |-> "", shape |-> <<>>, value |-> v, data |-> <<>>]

Pending == [kind |-> "pending", exc |-> "", value |-> Unbound]
Returned(v) == [kind |-> "return", exc |-> "", value |-> v]
Raised(x) == [kind |-> "raise", exc |-> x, value |-> Unbound]

Op(name, hdu) == [op |-> name, hdu |-> hdu]
Line(what, val) == [line |-> what, val |-> val]

NoSampmodeNotice == "There is no SAMPMODE Keyword in this .fits file"

(***************************************************************************)
(* The call.                                                               *)
(***************************************************************************)
Init ==
    /\ file \in Files
    /\ file0 = file
    /\ pc = "open"
    /\ call = 1
    /\ openHandles = 0
    /\ n_ext = 0
    /\ frames = Unbound
    /\ e = 0
    /\ stdout = <<>>
    /\ ops = <<>>
    /\ outcome = Pending
    /\ first = [outcome |-> Pending, stdout |-> <<>>]

\* An exception leaves the function: nothing is returned.
Raise(x) ==
    /\ pc' = "raised"
    /\ outcome' = Raised(x)

\* Variant: a failed open is swallowed and the call goes on to the header.
Open_Tolerant ==
    /\ pc = "open"
    /\ ops' = Append(ops, Op("fits.open", 0))
    /\ openHandles' = IF file.exists THEN openHandles + 1 ELSE openHandles
    /\ pc' = "primary"
    /\ UNCHANGED <<file, file0, call, n_ext, frames, e, stdout, outcome, first>>

\* nirc2_hdul = fits.open(filename)
Open ==
    /\ pc = "open"
    /\ ops' = Append(ops, Op("fits.open", 0))
    /\ IF file.exists
       THEN /\ openHandles' = openHandles + 1
            /\ pc' = "primary"
            /\ UNCHANGED outcome
       ELSE /\ Raise("FileNotFoundError")
            /\ UNCHANGED openHandles
    /\ UNCHANGED <<file, file0, call, n_ext, frames, e, stdout, first>>

\* nirc2_hdr = nirc2_hdul[0].header
PrimaryHeader ==
    /\ pc = "primary"
    /\ ops' = ops \o <<Op("hdul[]", 0), Op("header", 0)>>
    /\ pc' = "try"
    /\ UNCHANGED <<file, file0, call, openHandles, n_ext, frames, e, stdout,
                   outcome, first>>

\* try: nirc2_hdr['SAMPMODE'] / except: / else:
\* The bare except takes every exception the lookup raises.
LookupSampmode ==
    /\ pc = "try"
    /\ ops' = Append(ops, Op("header[SAMPMODE]", 0))
    /\ pc' = IF Lookup(file.primary, "SAMPMODE").exc # "" THEN "except" ELSE "else"
    /\ UNCHANGED <<file, file0, call, openHandles, n_ext, frames, e, stdout,
                   outcome, first>>

\* Variant: no else clause, the array code follows the except block.
NoSampmode_FallThrough ==
    /\ pc = "except"
    /\ frames' = IntObject(0)
    /\ stdout' = Append(stdout, Line(NoSampmodeNotice, <<>>))
    /\ pc' = "else"
    /\ UNCHANGED <<file, file0, call, openHandles, n_ext, e, ops, outcome, first>>

\* frames = 0; print("There is no SAMPMODE Keyword in this .fits file")
NoSampmode ==
    /\ pc = "except"
    /\ frames' = IntObject(0)
    /\ stdout' = Append(stdout, Line(NoSampmodeNotice, <<>>))
    /\ pc' = "return"
    /\ UNCHANGED <<file, file0, call, openHandles, n_ext, e, ops, outcome, first>>

\* n_ext = len(nirc2_hdul)-1
CountExtensions ==
    /\ pc = "else"
    /\ n_ext' = (1 + Len(file.exts)) - 1
    /\ ops' = Append(ops, Op("len", 0))
    /\ pc' = "zeros"
    /\ UNCHANGED <<file, file0, call, openHandles, frames, e, stdout, outcome, first>>

\* The three lookups of the shape tuple, left to right, up to the first that
\* raises: nirc2_hdul[1] (IndexError) and .header[key] (KeyError).
RECURSIVE AxisLookups(_, _)
AxisLookups(f, keys) ==
    IF keys = <<>> THEN [exc |-> "", vals |-> <<>>, ops |-> <<>>]
    ELSE IF Len(f.exts) < 1
         THEN [exc |-> "IndexError", vals |-> <<>>, ops |-> <<Op("hdul[]", 1)>>]
    ELSE LET got  == Lookup(f.exts[1].header, Head(keys))
             here == <<Op("hdul[]", 1), Op("header", 1),
                       Op("header[" \o Head(keys) \o "]", 1)>>
             rest == AxisLookups(f, Tail(keys))
         IN  IF got.exc # ""
             THEN [exc |-> got.exc, vals |-> <<>>, ops |-> here]
             ELSE [exc |-> rest.exc, vals |-> <<got.val>> \o rest.vals,
                   ops |-> here \o rest.ops]

\* Variant: a failed axis lookup is swallowed and an empty array allocated.
AllocFrames_Tolerant ==
    /\ pc = "zeros"
    /\ LET got == AxisLookups(file, <<"NAXIS3", "NAXIS2", "NAXIS1">>)
       IN  IF got.exc # ""
           THEN /\ frames' = Zeros(<<n_ext, 0, 0, 0>>)
                /\ ops' = ops \o got.ops \o <<Op("np.zeros", 0)>>
                /\ pc' = "return"
           ELSE /\ frames' = Zeros(<<n_ext>> \o got.vals)
                /\ ops' = ops \o got.ops \o <<Op("np.zeros", 0)>>
                /\ pc' = "printshape"
    /\ UNCHANGED <<file, file0, call, openHandles, n_ext, e, stdout, outcome, first>>

\* frames = np.zeros((n_ext, ...['NAXIS3'], ...['NAXIS2'], ...['NAXIS1']))
AllocFrames ==
    /\ pc = "zeros"
    /\ LET got == AxisLookups(file, <<"NAXIS3", "NAXIS2", "NAXIS1">>)
       IN  IF got.exc # ""
           THEN /\ Raise(got.exc)
                /\ ops' = ops \o got.ops
                /\ UNCHANGED frames
           ELSE /\ frames' = Zeros(<<n_ext>> \o got.vals)
                /\ ops' = ops \o got.ops \o <<Op("np.zeros", 0)>>
                /\ pc' = "printshape"
                /\ UNCHANGED outcome
    /\ UNCHANGED <<file, file0, call, openHandles, n_ext, e, stdout, first>>

\* print(frames.shape)
PrintShape ==
    /\ pc = "printshape"
    /\ stdout' = Append(stdout, Line("shape", frames.shape))
    /\ e' = 0
    /\ pc' = "for"
    /\ UNCHANGED <<file, file0, call, openHandles, n_ext, frames, ops, outcome, first>>

\* for e in np.arange(n_ext): the next index, or the end of the loop
ForNext ==
    /\ pc = "for"
    /\ pc' = IF e < n_ext THEN "printindex" ELSE "return"
    /\ UNCHANGED <<file, file0, call, openHandles, n_ext, frames, e, stdout, ops,
                   outcome, first>>

\* print(e)
PrintIndex ==
    /\ pc = "printindex"
    /\ stdout' = Append(stdout, Line("index", <<e>>))
    /\ pc' = "copy"
    /\ UNCHANGED <<file, file0, call, openHandles, n_ext, frames, e, ops, outcome, first>>

\* An int32 value written as a pixel.
Int32Pixel(v) == Px(v \div Limb, v % Limb, 0)

\* Variant: the file is opened for update and the cast is made in place, so
\* the converted pixels are written back to the extension.
CopyExtension_WriteBack ==
    /\ pc = "copy"
    /\ LET data  == file.exts[e + 1].data
           slice == Tail(frames.shape)
           read  == <<Op("hdul[]", e + 1), Op("data", e + 1), Op("np.array", e + 1)>>
       IN  IF data.isNone
           THEN /\ Raise("TypeError")
                /\ ops' = ops \o read
                /\ UNCHANGED <<frames, e, file>>
           ELSE IF ~CanBroadcast(data.shape, slice)
           THEN /\ Raise("ValueError")
                /\ ops' = ops \o read
                /\ UNCHANGED <<frames, e, file>>
           ELSE /\ frames' = [frames EXCEPT !.data[e + 1] =
                                 LET src == BroadcastTo(AsInt32(data), slice)
                                 IN  [k \in DOMAIN src |-> Float64Store(src[k])]]
                /\ file' = [file EXCEPT !.exts[e + 1].data.flat =
                               [k \in DOMAIN data.flat |->
                                   Int32Pixel(Int32Cast(data.flat[k]))]]
                /\ ops' = ops \o read \o <<Op("setitem", e)>>
                /\ e' = e + 1
                /\ pc' = "for"
                /\ UNCHANGED outcome
    /\ UNCHANGED <<file0, call, openHandles, n_ext, stdout, first>>

\* Variant: the store goes to frames[e-1,:,:,:] (index -1 is the last slice).
CopyExtension_PrevSlice ==
    /\ pc = "copy"
    /\ LET data  == file.exts[e + 1].data
           slice == Tail(frames.shape)
           read  == <<Op("hdul[]", e + 1), Op("data", e + 1), Op("np.array", e + 1)>>
       IN  IF data.isNone
           THEN /\ Raise("TypeError")
                /\ ops' = ops \o read
                /\ UNCHANGED <<frames, e>>
           ELSE IF ~CanBroadcast(data.shape, slice)
           THEN /\ Raise("ValueError")
                /\ ops' = ops \o read
                /\ UNCHANGED <<frames, e>>
           ELSE /\ frames' = [frames EXCEPT !.data[((e - 1) % n_ext) + 1] =
                                 LET src == BroadcastTo(AsInt32(data), slice)
                                 IN  [k \in DOMAIN src |-> Float64Store(src[k])]]
                /\ ops' = ops \o read \o <<Op("setitem", e)>>
                /\ e' = e + 1
                /\ pc' = "for"
                /\ UNCHANGED outcome
    /\ UNCHANGED <<file, file0, call, openHandles, n_ext, stdout, first>>

\* frames[e,:,:,:] = np.array(nirc2_hdul[e+1].data, dtype=np.int32)
\* np.array(None, dtype=np.int32) raises TypeError; a source that does not
\* broadcast to the slice raises ValueError.
CopyExtension ==
    /\ pc = "copy"
    /\ LET data  == file.exts[e + 1].data
           slice == Tail(frames.shape)
           read  == <<Op("hdul[]", e + 1), Op("data", e + 1), Op("np.array", e + 1)>>
       IN  IF data.isNone
           THEN /\ Raise("TypeError")
                /\ ops' = ops \o read
                /\ UNCHANGED <<frames, e>>
           ELSE IF ~CanBroadcast(data.shape, slice)
           THEN /\ Raise("ValueError")
                /\ ops' = ops \o read
                /\ UNCHANGED <<frames, e>>
           ELSE /\ frames' = [frames EXCEPT !.data[e + 1] =
                                 LET src == BroadcastTo(AsInt32(data), slice)
                                 IN  [k \in DOMAIN src |-> Float64Store(src[k])]]
                /\ ops' = ops \o read \o <<Op("setitem", e)>>
                /\ e' = e + 1
                /\ pc' = "for"
                /\ UNCHANGED outcome
    /\ UNCHANGED <<file, file0, call, openHandles, n_ext, stdout, first>>

\* return frames
\* The function never closes nirc2_hdul; on return the local name, the only
\* reference to the HDU list, goes away and the interpreter releases the
\* list with its handle.
Return ==
    /\ pc = "return"
    /\ outcome' = Returned(frames)
    /\ openHandles' = openHandles - 1
    /\ pc' = "returned"
    /\ UNCHANGED <<file, file0, call, n_ext, frames, e, stdout, ops, first>>

Ended == pc \in {"returned", "raised"}

\* The caller calls ReadNIRC2Fits on the same file a second time.  An
\* exception of the first call keeps that call's frame, and so its HDU list
\* and handle, alive through its traceback.  A caller that has dropped the
\* exception by now has released the handle; one that still holds it (it
\* kept the exception object, or calls again inside the handler) has not.
CallAgain ==
    /\ Ended
    /\ call = 1
    /\ first' = [outcome |-> outcome, stdout |-> stdout]
    /\ call' = 2
    /\ pc' = "open"
    /\ n_ext' = 0
    /\ frames' = Unbound
    /\ e' = 0
    /\ stdout' = <<>>
    /\ ops' = <<>>
    /\ outcome' = Pending
    /\ openHandles' \in IF pc = "raised" /\ openHandles > 0
                        THEN {openHandles - 1, openHandles}
                        ELSE {openHandles}
    /\ UNCHANGED <<file, file0>>

Next ==
    \/ Open
    \/ PrimaryHeader
    \/ LookupSampmode
    \/ NoSampmode
    \/ CountExtensions
    \/ AllocFrames
    \/ PrintShape
    \/ ForNext
    \/ PrintIndex
    \/ CopyExtension
    \/ Return
    \/ CallAgain

Spec == Init /\ [][Next]_vars

(***************************************************************************)
(* Vocabulary of the properties.                                           *)
(***************************************************************************)
\* The SAMPMODE keyword is absent from the primary header.
SampmodeAbsent == Lookup(file.primary, "SAMPMODE").exc = "KeyError"

\* The SAMPMODE keyword is present: the lookup yields its value.
SampmodePresent == Lookup(file.primary, "SAMPMODE").exc = ""

NoData == Returned(IntObject(0))

\* Extension 1 exists and its header declares NAXIS3, NAXIS2 and NAXIS1.
ShapeKnown ==
    /\ Len(file.exts) >= 1
    /\ {"NAXIS3", "NAXIS2", "NAXIS1"} \subseteq DOMAIN file.exts[1].header.cards

\* (Z, Y, X) as extension 1's header declares it.
Cube ==
    LET c == file.exts[1].header.cards
    IN  <<c["NAXIS3"], c["NAXIS2"], c["NAXIS1"]>>

\* Every extension carries data of shape (Z, Y, X).
Uniform ==
    \A i \in 1..Len(file.exts) :
        ~file.exts[i].data.isNone /\ file.exts[i].data.shape = Cube

WellFormed == file.exists /\ SampmodePresent /\ ShapeKnown /\ Uniform

\* Positions in ops of the operations on extensions, and of one operation.
ExtensionOps == {i \in DOMAIN ops : ops[i].hdu >= 1}
OpsNamed(name) == {i \in DOMAIN ops : ops[i].op = name}
LinesOf(what) == {i \in DOMAIN stdout : stdout[i].line = what}

(***************************************************************************)
(* C1: on a well-formed file with SAMPMODE and N >= 1 extensions of shape  *)
(* (Z, Y, X) the call returns an array of shape (N, Z, Y, X) whose slice i *)
(* is the int32 cast of extension i+1's data, element by element, and an   *)
(* integer pixel within the int32 range comes back as itself.              *)
(***************************************************************************)
C1_SlicesAreCastData ==
    (Ended /\ WellFormed) =>
        /\ outcome.kind = "return"
        /\ outcome.value.kind = "array"
        /\ outcome.value.shape = <<Len(file.exts)>> \o Cube
        /\ Len(outcome.value.data) = Len(file.exts)
        /\ \A i \in 1..Len(file.exts) :
              /\ Len(outcome.value.data[i]) = Prod(Cube)
              /\ \A k \in 1..Prod(Cube) :
                    LET p == file.exts[i].data.flat[k]
                    IN  /\ outcome.value.data[i][k] = Int32Cast(p)
                        /\ InInt32Range(p) => outcome.value.data[i][k] = IntValue(p)

C1_Witness ==
    /\ pc = "returned"
    /\ WellFormed
    /\ Len(file.exts) = 2
    /\ Prod(Cube) >= 4
    /\ \E k \in 1..Prod(Cube) : file.exts[1].data.flat[k] = Px(1, 4464, 0)
    /\ \E k \in 1..Prod(Cube) : outcome.value.data[1][k] = 70000

(***************************************************************************)
(* C2: when the primary header lacks SAMPMODE the call never touches an    *)
(* extension, prints the notice exactly once and returns the scalar 0.     *)
(***************************************************************************)
C2_NoSampmodeNoData ==
    (file.exists /\ SampmodeAbsent) =>
        /\ ExtensionOps = {}
        /\ Ended => /\ outcome = NoData
                    /\ Cardinality(LinesOf(NoSampmodeNotice)) = 1
                    /\ stdout = <<Line(NoSampmodeNotice, <<>>)>>

C2_Witness ==
    /\ pc = "returned"
    /\ file.exists
    /\ SampmodeAbsent
    /\ Len(file.exts) = 2
    /\ outcome = NoData

(***************************************************************************)
(* C3: with SAMPMODE present and the shape known, an extension whose data  *)
(* shape is not (Z, Y, X) makes the call end with an error, no array being *)
(* returned.                                                               *)
(***************************************************************************)
C3_MismatchRaises ==
    (/\ Ended
     /\ file.exists
     /\ SampmodePresent
     /\ ShapeKnown
     /\ \E i \in 1..Len(file.exts) :
           ~file.exts[i].data.isNone /\ file.exts[i].data.shape # Cube)
    => outcome.kind = "raise"

(***************************************************************************)
(* C4: no call ends with the file handle it opened still open, whether it  *)
(* returns or ends with an error.                                          *)
(***************************************************************************)
C4_HandleReleased == Ended => openHandles = 0

(***************************************************************************)
(* C5: the no-data result is returned exactly when the SAMPMODE keyword is *)
(* absent; no other failure of the lookup is turned into it.               *)
(***************************************************************************)
C5_NoDataIffAbsent ==
    (Ended /\ file.exists) => (outcome = NoData <=> SampmodeAbsent)

(***************************************************************************)
(* C6: with SAMPMODE present and no extension 1, or an extension 1 whose   *)
(* header lacks NAXIS3, NAXIS2 or NAXIS1, the call ends with the lookup's  *)
(* error: nothing is returned, no array exists and no data has been read.  *)
(***************************************************************************)
C6_UnknownShapeRaises ==
    (file.exists /\ SampmodePresent /\ ~ShapeKnown) =>
        /\ frames = Unbound
        /\ OpsNamed("np.zeros") = {}
        /\ OpsNamed("data") = {}
        /\ OpsNamed("setitem") = {}
        /\ Ended => /\ outcome.kind = "raise"
                    /\ outcome.exc = (IF Len(file.exts) = 0 THEN "IndexError"
                                      ELSE "KeyError")
                    /\ outcome.value = Unbound

C6_Witness ==
    /\ pc = "raised"
    /\ file.exists
    /\ SampmodePresent
    /\ Len(file.exts) = 2
    /\ ~ShapeKnown
    /\ ~file.exts[1].data.isNone
    /\ outcome.exc = "KeyError"

(***************************************************************************)
(* C7: on a path that cannot be opened the call fails at fits.open: that   *)
(* is the only operation it performs, it prints nothing, binds no array    *)
(* and ends with the file-access error.                                    *)
(***************************************************************************)
C7_OpenFailsFirst ==
    ~file.exists =>
        /\ \A i \in DOMAIN ops : ops[i] = Op("fits.open", 0)
        /\ stdout = <<>>
        /\ frames = Unbound
        /\ pc \in {"open", "raised"}
        /\ Ended => outcome = Raised("FileNotFoundError")

C7_Witness ==
    /\ pc = "raised"
    /\ ~file.exists
    /\ ops = <<Op("fits.open", 0)>>

(***************************************************************************)
(* C8: the array the SAMPMODE branch allocates is zero-filled, of shape    *)
(* (n_ext, Z, Y, X), with 32-bit signed integer elements.                  *)
(***************************************************************************)
C8_FramesAreInt32 ==
    frames.kind = "array" =>
        /\ frames.shape = <<Len(file.exts)>> \o Cube
        /\ frames.dtype = "int32"

(***************************************************************************)
(* C9: a second call on the same file ends as the first did (same result   *)
(* or same error, same output), and no call changes the file.              *)
(***************************************************************************)
C9_SecondCallSame ==
    /\ file = file0
    /\ (Ended /\ call = 2) => /\ outcome = first.outcome
                             /\ stdout = first.stdout

C9_Witness ==
    /\ pc = "returned"
    /\ call = 2
    /\ outcome.value.kind = "array"
    /\ Len(file.exts) = 2
    /\ first.outcome.kind = "return"

(***************************************************************************)
(* C10: in the SAMPMODE branch the array is allocated once, before any     *)
(* extension data is read; the shape is printed once, first; extensions    *)
(* are copied in the order 0, 1, ..., each after its index is printed; and *)
(* throughout the loop the slices below e hold their extension's cast data *)
(* while the slices from e on are still zero.                              *)
(***************************************************************************)
InLoop == pc \in {"for", "printindex", "copy", "return", "returned"} /\ frames.kind = "array"

\* Index lines printed so far: one more than slices written between print(e)
\* and the store.
Printed == IF pc = "copy" THEN e + 1 ELSE e

C10_OrderedFill ==
    InLoop =>
        /\ Cardinality(OpsNamed("np.zeros")) = 1
        /\ \A i \in OpsNamed("data"), j \in OpsNamed("np.zeros") : j < i
        /\ stdout = <<Line("shape", frames.shape)>> \o
                    [i \in 1..Printed |-> Line("index", <<i - 1>>)]
        /\ SelectSeq(ops, LAMBDA o : o.op = "setitem") =
               [i \in 1..e |-> Op("setitem", i - 1)]
        /\ SelectSeq(ops, LAMBDA o : o.op = "data") =
               [i \in 1..e |-> Op("data", i)]
        /\ e <= n_ext
        /\ pc \in {"return", "returned"} => e = n_ext
        /\ \A i \in 1..n_ext :
              IF i <= e
              THEN LET data == file.exts[i].data
                   IN  /\ frames.data[i] =
                             BroadcastTo(AsInt32(data), Tail(frames.shape))
                       /\ data.shape = Tail(frames.shape) =>
                             \A k \in DOMAIN data.flat :
                                 frames.data[i][k] = Int32Cast(data.flat[k])
              ELSE \A k \in DOMAIN frames.data[i] : frames.data[i][k] = 0

C10_Witness ==
    /\ pc = "copy"
    /\ e = 1
    /\ n_ext = 2
    /\ \E k \in DOMAIN frames.data[1] : frames.data[1][k] # 0
    /\ \A k \in DOMAIN frames.data[2] : frames.data[2][k] = 0
    /\ Len(stdout) = 3

====
